---- MODULE Spec2Model ----
(***************************************************************************)
(* text-merger: process_zip unpacks a zip archive into a scratch           *)
(* directory, walks the extracted files, converts or inlines each one and  *)
(* concatenates the sections into <archive name>.md.                       *)
(*                                                                         *)
(* A behaviour of Spec is one invocation of process_zip; in SpecRerun it   *)
(* may be followed by a second invocation on the same archive.  The        *)
(* archive, the external tools and the file that may already sit at the    *)
(* output path are the inputs; they are chosen in Init, and the archive    *)
(* and the tools never change.                                             *)
(*                                                                         *)
(* An extracted entry is described by what the code looks at: its suffix   *)
(* and what opening and decoding it gives.  Entries carry no directory, so *)
(* the walk may visit them in any order; os.walk with its unspecified      *)
(* scandir order produces a subset of these orders.  Writes to the opened  *)
(* output file are taken to succeed (they go to a buffered text file).     *)
(***************************************************************************)
EXTENDS Naturals, Sequences, FiniteSets

\* Largest number of entries in an archive.
MaxEntries == 2

(***************************************************************************)
(* Inputs                                                                  *)
(***************************************************************************)

\* Suffixes of the entries: allow-listed text, allow-listed and pandoc,
\* pandoc only (upper case on disk), notebook, neither.
Exts == {".txt", ".html", ".DOCX", ".ipynb", ".png"}

\* What opening the entry and decoding its bytes as UTF-8 gives:
\*   "text"        every byte decodes
\*   "binaryHead"  an undecodable byte lies in the first chunk that
\*                 f.read(1024) decodes
\*   "binaryTail"  the only undecodable bytes lie past that chunk
\*   "unreadable"  open() raises OSError
Datas == {"text", "binaryHead", "binaryTail", "unreadable"}

Catalogue == [ext : Exts, data : Datas]

NoEntry == [ext |-> "", data |-> ""]

\* State of an external tool: not installed, or installed and, run on an
\* entry, exiting 0, exiting non-zero (CalledProcessError), or failing to
\* run or to yield UTF-8 output (any other exception).
ToolStates == {"absent", "zero", "nonzero", "error"}

\* "missing": no file at the path.  "corrupt": zipfile raises BadZipFile.
\* "unextractable": opening or extracting raises another exception
\* (an encrypted member, an unsupported compression method, a directory).
ArchiveStatuses == {"missing", "corrupt", "unextractable", "valid"}

RECURSIVE SubsetsUpTo(_, _)
SubsetsUpTo(S, n) ==
    IF n = 0 THEN {{}}
    ELSE LET P == SubsetsUpTo(S, n - 1)
         IN  P \cup {p \cup {x} : p \in P, x \in S}

Archives ==
    {[status |-> "missing", entries |-> {}]}
    \cup {[status |-> s, entries |-> es] :
            s \in ArchiveStatuses \ {"missing"},
            es \in SubsetsUpTo(Catalogue, MaxEntries)}

(***************************************************************************)
(* The output document                                                     *)
(***************************************************************************)

NoFile == <<>>

\* outfile.write(f"# Content of {zip_path.name}\n\n")
Header == [kind |-> "header", entry |-> NoEntry, converted |-> FALSE,
           content |-> ""]

\* A file left at the output path by something else.
StaleDoc == <<[kind |-> "stale", entry |-> NoEntry, converted |-> FALSE,
               content |-> "old"]>>

\* The eight writes of one section: title, size, extension, path, fence,
\* content, fence, rule.
Section(e, conv, text) ==
    [kind |-> "section", entry |-> e, converted |-> conv, content |-> text]

Msg(t, e) == [text |-> t, entry |-> e]

VARIABLES
    archive,     \* the zip file at zip_path
    jupytext,    \* state of `python -m jupytext`
    pandoc,      \* state of pandoc
    pc,          \* position in process_zip
    tempDir,     \* "none", "present", "removed"
    extracted,   \* files in the scratch directory
    visited,     \* entries the walk has yielded, in order
    outFile,     \* the document at the output path (NoFile: no such file)
    log,         \* printed lines
    rerun,       \* TRUE in the second invocation
    previous     \* document the first invocation completed with

vars == <<archive, jupytext, pandoc, pc, tempDir, extracted, visited,
          outFile, log, rerun, previous>>

env == <<archive, jupytext, pandoc>>

Range(s) == {s[i] : i \in 1..Len(s)}

(***************************************************************************)
(* Classifier and converter                                                *)
(***************************************************************************)

\* str.lower() on the suffixes of Exts.
Lower(ext) == IF ext = ".DOCX" THEN ".docx" ELSE ext

pandoc_formats ==
    {".docx", ".odt", ".tex", ".latex", ".rst", ".org", ".wiki",
     ".epub", ".html", ".htm"}

text_extensions ==
    {".txt", ".md", ".py", ".js", ".html", ".css", ".json", ".xml",
     ".yml", ".yaml", ".ini", ".conf", ".sh", ".bat", ".c", ".cpp",
     ".h", ".java", ".rs", ".go", ".ts", ".tsx", ".jsx", ".vue",
     ".php", ".rb", ".pl", ".sql", ".r", ".m", ".swift", ".kt"}

\* Variant: the tool is chosen by suffix alone, without probing for it.
get_conversion_tool_NoProbe(extension) ==
    LET ext == Lower(extension)
    IN  IF ext = ".ipynb" THEN "jupytext"
        ELSE IF ext \in pandoc_formats THEN "pandoc"
        ELSE "none"

\* The command chosen for a suffix, "none" when there is none.  The
\* jupytext probe runs sys.executable, the running interpreter, and is taken
\* to launch: a missing module makes it exit non-zero (CalledProcessError).
get_conversion_tool(extension) ==
    LET ext == Lower(extension)
    IN  IF ext = ".ipynb" /\ jupytext # "absent" THEN "jupytext"
        ELSE IF ext \in pandoc_formats /\ pandoc # "absent" THEN "pandoc"
        ELSE "none"

\* Exit of the chosen tool run on an entry.
RunTool(tool) == IF tool = "jupytext" THEN jupytext ELSE pandoc

\* Variant: subprocess.run without check=True, so a non-zero exit still
\* returns the captured output as converted.
convert_file_NoCheck(e) ==
    LET tool_cmd == get_conversion_tool(e.ext)
    IN  IF tool_cmd # "none"
        THEN CASE RunTool(tool_cmd) \in {"zero", "nonzero"} ->
                    [content |-> "markdown", converted |-> TRUE,
                     printed |-> <<>>]
               [] OTHER ->
                    [content |-> "none", converted |-> FALSE,
                     printed |-> <<Msg("Error converting", e)>>]
        ELSE [content |-> "none", converted |-> FALSE, printed |-> <<>>]

\* (content, was_converted) and the lines convert_file prints.
convert_file(e) ==
    LET tool_cmd == get_conversion_tool(e.ext)
    IN  IF tool_cmd # "none"
        THEN CASE RunTool(tool_cmd) = "zero" ->
                    [content |-> "markdown", converted |-> TRUE,
                     printed |-> <<>>]
               [] RunTool(tool_cmd) = "nonzero" ->
                    [content |-> "none", converted |-> FALSE,
                     printed |-> <<Msg("Conversion failed", e)>>]
               [] OTHER ->
                    [content |-> "none", converted |-> FALSE,
                     printed |-> <<Msg("Error converting", e)>>]
        ELSE [content |-> "none", converted |-> FALSE, printed |-> <<>>]

\* Variant: the probe catches OSError only and reads with errors='replace'.
is_text_file_OSErrorOnly(e) ==
    \/ Lower(e.ext) \in text_extensions
    \/ e.data # "unreadable"

\* Allow-listed suffix, else whether the first chunk opens and decodes.
is_text_file(e) ==
    \/ Lower(e.ext) \in text_extensions
    \/ e.data \notin {"unreadable", "binaryHead"}

\* open(..., errors='replace').read(): undecodable bytes become U+FFFD.
ReadReplace(e) == IF e.data = "text" THEN "text" ELSE "text with U+FFFD"

(***************************************************************************)
(* process_zip                                                             *)
(***************************************************************************)

Init ==
    /\ archive \in Archives
    /\ jupytext \in ToolStates
    /\ pandoc \in ToolStates
    /\ pc = "start"
    /\ tempDir = "none"
    /\ extracted = {}
    /\ visited = <<>>
    /\ outFile \in {NoFile, StaleDoc}
    /\ log = <<>>
    /\ rerun = FALSE
    /\ previous = NoFile

\* Variant: the output file is opened and the header written before the
\* archive is looked for.
CheckExistsOpenFirst ==
    /\ pc = "start"
    /\ outFile' = <<Header>>
    /\ IF archive.status = "missing"
       THEN /\ log' = Append(log, Msg("Error: not found", NoEntry))
            /\ pc' = "returned"
       ELSE /\ log' = Append(log, Msg("Processing", NoEntry))
            /\ pc' = "mktemp"
    /\ UNCHANGED <<env, tempDir, extracted, visited, rerun, previous>>

\* Lines 95-102: resolve the path, return if nothing is there.
CheckExists ==
    /\ pc = "start"
    /\ IF archive.status = "missing"
       THEN /\ log' = Append(log, Msg("Error: not found", NoEntry))
            /\ pc' = "returned"
       ELSE /\ log' = Append(log, Msg("Processing", NoEntry))
            /\ pc' = "mktemp"
    /\ UNCHANGED <<env, tempDir, extracted, visited, outFile, rerun, previous>>

\* Line 104: enter tempfile.TemporaryDirectory().
MakeTempDir ==
    /\ pc = "mktemp"
    /\ tempDir' = "present"
    /\ pc' = "extract"
    /\ UNCHANGED <<env, extracted, visited, outFile, log, rerun, previous>>

\* Lines 105-107: extractall.  A failing archive may have put some of its
\* members into the scratch directory before the exception.
ExtractAll ==
    /\ pc = "extract"
    /\ \/ /\ archive.status = "valid"
          /\ extracted' = archive.entries
          /\ pc' = "open"
       \/ /\ archive.status = "corrupt"
          /\ \E part \in SUBSET archive.entries : extracted' = part
          /\ pc' = "badzip"
       \/ /\ archive.status = "unextractable"
          /\ \E part \in SUBSET archive.entries : extracted' = part
          /\ pc' = "raise"
    /\ UNCHANGED <<env, tempDir, visited, outFile, log, rerun, previous>>

\* Variant: the handler prints but does not return.
InvalidZipNoReturn ==
    /\ pc = "badzip"
    /\ log' = Append(log, Msg("Error: Invalid zip file.", NoEntry))
    /\ pc' = "open"
    /\ UNCHANGED <<env, tempDir, extracted, visited, outFile, rerun, previous>>

\* Lines 108-110: except BadZipFile: print, return; leaving the with block
\* removes the scratch directory.
InvalidZip ==
    /\ pc = "badzip"
    /\ log' = Append(log, Msg("Error: Invalid zip file.", NoEntry))
    /\ tempDir' = "removed"
    /\ extracted' = {}
    /\ pc' = "returned"
    /\ UNCHANGED <<env, visited, outFile, rerun, previous>>

\* Variant: the scratch directory comes from mkdtemp and is removed only at
\* the end of the normal path.
PropagateNoCleanup ==
    /\ pc = "raise"
    /\ pc' = "crashed"
    /\ UNCHANGED <<env, tempDir, extracted, visited, outFile, log, rerun,
                   previous>>

\* An exception leaves the with block of line 104 and process_zip.
Propagate ==
    /\ pc = "raise"
    /\ tempDir' = "removed"
    /\ extracted' = {}
    /\ pc' = "crashed"
    /\ UNCHANGED <<env, visited, outFile, log, rerun, previous>>

\* Variant: the output is opened in append mode.
OpenOutputAppend ==
    /\ pc = "open"
    /\ \/ /\ outFile' = Append(outFile, Header)
          /\ pc' = "walk"
       \/ /\ outFile' = outFile
          /\ pc' = "raise"
    /\ UNCHANGED <<env, tempDir, extracted, visited, log, rerun, previous>>

\* Lines 112-113: open the output for writing (truncating) and write the
\* header; open() may raise (the directory is not writable).
OpenOutput ==
    /\ pc = "open"
    /\ \/ /\ outFile' = <<Header>>
          /\ pc' = "walk"
       \/ /\ outFile' = outFile
          /\ pc' = "raise"
    /\ UNCHANGED <<env, tempDir, extracted, visited, log, rerun, previous>>

\* Variant: the entry is read without errors='replace', so undecodable
\* bytes raise in the read and the entry is skipped.
TextPathStrict(e, printed) ==
    IF is_text_file(e)
    THEN IF e.data = "text"
         THEN /\ outFile' = Append(outFile, Section(e, FALSE, ReadReplace(e)))
              /\ log' = log \o printed \o <<Msg("Added", e)>>
         ELSE /\ outFile' = outFile
              /\ log' = log \o printed \o <<Msg("Skipping", e)>>
    ELSE /\ outFile' = outFile
         /\ log' = log \o printed

\* Variant: the title line is written before the entry is read.
TextPathWriteFirst(e, printed) ==
    IF is_text_file(e)
    THEN IF e.data # "unreadable"
         THEN /\ outFile' = Append(outFile, Section(e, FALSE, ReadReplace(e)))
              /\ log' = log \o printed \o <<Msg("Added", e)>>
         ELSE /\ outFile' = Append(outFile,
                               [kind |-> "title", entry |-> e,
                                converted |-> FALSE, content |-> ""])
              /\ log' = log \o printed \o <<Msg("Skipping", e)>>
    ELSE /\ outFile' = outFile
         /\ log' = log \o printed

\* Lines 136-151: the text path of the loop body.
TextPath(e, printed) ==
    IF is_text_file(e)
    THEN IF e.data # "unreadable"
         THEN /\ outFile' = Append(outFile, Section(e, FALSE, ReadReplace(e)))
              /\ log' = log \o printed \o <<Msg("Added", e)>>
         ELSE /\ outFile' = outFile
              /\ log' = log \o printed \o <<Msg("Skipping", e)>>
    ELSE /\ outFile' = outFile
         /\ log' = log \o printed

\* Variant: the converted branch lacks its continue and falls into the
\* text path.
VisitEntryNoContinue(e) ==
    /\ pc = "walk"
    /\ e \in extracted
    /\ e \notin Range(visited)
    /\ visited' = Append(visited, e)
    /\ LET r == convert_file(e)
           mid == IF r.converted
                  THEN Append(outFile, Section(e, TRUE, r.content))
                  ELSE outFile
       IN  /\ outFile' = IF is_text_file(e) /\ e.data # "unreadable"
                         THEN Append(mid, Section(e, FALSE, ReadReplace(e)))
                         ELSE mid
           /\ log' = log \o r.printed \o <<Msg("Visited", e)>>
    /\ UNCHANGED <<env, pc, tempDir, extracted, rerun, previous>>

\* Lines 116-151: one iteration of the walk.
VisitEntry(e) ==
    /\ pc = "walk"
    /\ e \in extracted
    /\ e \notin Range(visited)
    /\ visited' = Append(visited, e)
    /\ LET r == convert_file(e)
       IN  IF r.converted
           THEN /\ outFile' = Append(outFile, Section(e, TRUE, r.content))
                /\ log' = log \o <<Msg("Converted and Added", e)>>
           ELSE TextPath(e, r.printed)
    /\ UNCHANGED <<env, pc, tempDir, extracted, rerun, previous>>

\* The walk is exhausted: both with blocks are left, line 153 prints.
Finish ==
    /\ pc = "walk"
    /\ extracted \subseteq Range(visited)
    /\ tempDir' = "removed"
    /\ extracted' = {}
    /\ log' = Append(log, Msg("Done", NoEntry))
    /\ pc' = "done"
    /\ UNCHANGED <<env, visited, outFile, rerun, previous>>

Terminated == pc \in {"returned", "crashed", "done"}

\* The command is run again on the same archive with the same tools.
Rerun ==
    /\ Terminated
    /\ ~rerun
    /\ rerun' = TRUE
    /\ previous' = IF pc = "done" THEN outFile ELSE previous
    /\ pc' = "start"
    /\ tempDir' = "none"
    /\ visited' = <<>>
    /\ log' = <<>>
    /\ UNCHANGED <<env, extracted, outFile>>

Next ==
    \/ CheckExists
    \/ MakeTempDir
    \/ ExtractAll
    \/ InvalidZip
    \/ Propagate
    \/ OpenOutput
    \/ \E e \in Catalogue : VisitEntry(e)
    \/ Finish

\* One invocation.
Spec == Init /\ [][Next]_vars

NextRerun ==
    \/ Next
    \/ Rerun

\* Two invocations on the same archive.
SpecRerun == Init /\ [][NextRerun]_vars

(***************************************************************************)
(* Properties                                                              *)
(***************************************************************************)

\* Blocks of the document written for entry e (complete or not).
BlocksOf(e) == {i \in DOMAIN outFile : outFile[i].entry = e}

ConvertedSections(e) ==
    {i \in BlocksOf(e) : outFile[i].kind = "section" /\ outFile[i].converted}

PlainSections(e) ==
    {i \in BlocksOf(e) : outFile[i].kind = "section" /\ ~outFile[i].converted}

\* is_text_file accepts the entry and reading it succeeds.
TextEntry(e) == is_text_file(e) /\ e.data # "unreadable"

\* Neither textual nor converted: the classifier's "skip".
OpaqueEntry(e) == ~is_text_file(e) /\ ~convert_file(e).converted

\* The entry went down the text path: no converted section, and a plain
\* section exactly when it is a text entry.
PlainHandled(e) ==
    /\ ConvertedSections(e) = {}
    /\ BlocksOf(e) = PlainSections(e)
    /\ Cardinality(PlainSections(e)) = IF TextEntry(e) THEN 1 ELSE 0

\* The tool for the entry's suffix is not installed.
ToolAbsentFor(e) ==
    \/ Lower(e.ext) = ".ipynb" /\ jupytext = "absent"
    \/ Lower(e.ext) \in pandoc_formats /\ pandoc = "absent"

\* A tool is selected for the entry and its run fails.
ToolFailsFor(e) ==
    /\ get_conversion_tool(e.ext) # "none"
    /\ RunTool(get_conversion_tool(e.ext)) \in {"nonzero", "error"}

\* The text read of an entry that reached it raises.
ReadFailed(e) ==
    ~convert_file(e).converted /\ is_text_file(e) /\ e.data = "unreadable"

LoggedAs(e, texts) ==
    \E i \in DOMAIN log : log[i].entry = e /\ log[i].text \in texts

ArchiveError == archive.status \in {"missing", "corrupt"}

BothRunsDone == pc = "done" /\ rerun /\ previous # NoFile

\* C1: a completed run on an archive whose entries are N text entries and
\* otherwise opaque entries leaves the header followed by exactly N complete
\* sections, one for each text entry, converted or plain, in any walk order.
C1_ExactlyNSections ==
    (pc = "done" /\ \A e \in archive.entries : TextEntry(e) \/ OpaqueEntry(e))
    => LET text == {e \in archive.entries : TextEntry(e)}
       IN  /\ Len(outFile) = 1 + Cardinality(text)
           /\ outFile[1] = Header
           /\ \A i \in 2..Len(outFile) :
                outFile[i].kind = "section" /\ outFile[i].entry \in text
           /\ \A e \in text :
                Cardinality(ConvertedSections(e) \cup PlainSections(e)) = 1

C1_Witness ==
    /\ pc = "done"
    /\ \A e \in archive.entries : TextEntry(e) \/ OpaqueEntry(e)
    /\ \E e \in archive.entries : TextEntry(e) /\ ConvertedSections(e) # {}
    /\ \E e \in archive.entries : OpaqueEntry(e)

\* C2: with a missing or corrupt archive the run never gets past the
\* extraction, visits no entry, writes no header or section, never prints
\* the completion line, and returns right after printing an error; and a
\* run returns early only for such an archive.
C2_ArchiveErrorAborts ==
    /\ ArchiveError =>
         /\ pc \in {"start", "mktemp", "extract", "badzip", "returned"}
         /\ visited = <<>>
         /\ \A i \in DOMAIN outFile : outFile[i].kind \notin {"header", "section"}
         /\ ~LoggedAs(NoEntry, {"Done"})
         /\ pc = "returned" =>
              log[Len(log)].text \in {"Error: not found", "Error: Invalid zip file."}
    /\ pc = "returned" => ArchiveError

C2_Witness ==
    /\ pc = "returned"
    /\ archive.status = "corrupt"
    /\ archive.entries # {}
    /\ outFile = NoFile

\* C3 as claimed: no visited entry with undecodable bytes, whatever its
\* suffix and wherever the bytes lie, has a section, and the run has not
\* crashed.
C3_BinaryNeverWritten ==
    \A e \in Range(visited) :
        e.data \in {"binaryHead", "binaryTail"}
        => BlocksOf(e) = {} /\ pc \in {"walk", "done"}

\* C3 amended: a visited entry with undecodable bytes in the chunk that
\* is_text_file decodes, whose suffix is not allow-listed and which no
\* converter converted, has no section; and visiting entries never crashes
\* the run, which ends having visited every entry.
C3_BinaryOmitted ==
    /\ \A e \in Range(visited) :
         (/\ e.data = "binaryHead"
          /\ Lower(e.ext) \notin text_extensions
          /\ ~convert_file(e).converted)
         => BlocksOf(e) = {}
    /\ visited # <<>> => pc \in {"walk", "done"}
    /\ pc = "done" => Range(visited) = archive.entries

C3_Witness ==
    /\ pc = "done"
    /\ Len(visited) = 2
    /\ visited[1].data = "binaryHead"
    /\ visited[1].ext = ".png"
    /\ Len(outFile) = 2
    /\ outFile[2].entry = visited[2]

\* C4: when the tool for an entry's suffix is not installed,
\* get_conversion_tool returns none and convert_file returns (absent, not
\* converted); once visited, the entry has been handled by the text path
\* and the run has not failed.
C4_AbsentToolFallsBack ==
    \A e \in Catalogue :
        ToolAbsentFor(e)
        => /\ get_conversion_tool(e.ext) = "none"
           /\ convert_file(e).converted = FALSE
           /\ convert_file(e).content = "none"
           /\ e \in Range(visited) => PlainHandled(e) /\ pc \in {"walk", "done"}

C4_Witness ==
    /\ pc = "done"
    /\ \E e \in Range(visited) :
         ToolAbsentFor(e) /\ Lower(e.ext) = ".ipynb" /\ PlainSections(e) # {}
    /\ \E e \in Range(visited) :
         ToolAbsentFor(e) /\ Lower(e.ext) = ".docx" /\ BlocksOf(e) = {}

\* C5: an entry is visited only while the scratch directory exists; the
\* directory exists from its creation until process_zip ends, and every
\* way of ending (completion, invalid-zip return, exception) after creating
\* it leaves it removed and empty; the walk starts with it present.
C5_ScratchLifecycle ==
    [][/\ Len(visited') > Len(visited)
            => tempDir = "present" /\ tempDir' = "present"
       /\ pc' \in {"extract", "badzip", "raise", "open", "walk"}
            => tempDir' = "present"
       /\ pc' \in {"returned", "crashed", "done"}
            => /\ tempDir' # "present" /\ extracted' = {}
               /\ tempDir = "present" => tempDir' = "removed"
       /\ extracted' # {} => tempDir' = "present"
      ]_vars

C5_Witness ==
    /\ pc = "crashed"
    /\ tempDir = "removed"
    /\ archive.status = "valid"
    /\ archive.entries # {}

\* C6: when a tool is selected for an entry and its run exits non-zero or
\* raises, convert_file returns (absent, not converted); once visited, the
\* entry has no converted section and has been handled by the text path.
C6_FailedConversionFallsBack ==
    \A e \in Catalogue :
        ToolFailsFor(e)
        => /\ convert_file(e).converted = FALSE
           /\ convert_file(e).content = "none"
           /\ e \in Range(visited) => PlainHandled(e)

C6_Witness ==
    /\ \E e \in Range(visited) :
         /\ ToolFailsFor(e)
         /\ RunTool(get_conversion_tool(e.ext)) = "nonzero"
         /\ PlainSections(e) # {}
    /\ \E e \in Range(visited) :
         /\ ToolFailsFor(e)
         /\ RunTool(get_conversion_tool(e.ext)) = "error"
         /\ BlocksOf(e) = {}

\* C7 as claimed: every visited entry whose read or conversion failed has
\* its failure logged and no section at all, and the run has not crashed.
C7_FailureSkipsEntry ==
    \A e \in Range(visited) :
        (ReadFailed(e) \/ ToolFailsFor(e))
        => /\ LoggedAs(e, {"Skipping", "Conversion failed", "Error converting"})
           /\ BlocksOf(e) = {}
           /\ pc \in {"walk", "done"}

\* C7 amended: a failed text read is logged and leaves no block, not even a
\* partial one; a failed conversion is logged and the entry is then handled
\* by the text path (so it has a plain section when it is a text entry);
\* neither crashes the run: the walk can always go on, and a finished run
\* has visited every entry and printed the completion line.
C7_FailureNotFatal ==
    /\ \A e \in Range(visited) :
         /\ ReadFailed(e) => LoggedAs(e, {"Skipping"}) /\ BlocksOf(e) = {}
         /\ ToolFailsFor(e)
              => /\ LoggedAs(e, {"Conversion failed", "Error converting"})
                 /\ PlainHandled(e)
    /\ visited # <<>> => pc \in {"walk", "done"}
    /\ pc = "walk" => ENABLED (Finish \/ \E e \in Catalogue : VisitEntry(e))
    /\ pc = "done" =>
         /\ Range(visited) = archive.entries
         /\ log[Len(log)].text = "Done"

C7_Witness ==
    /\ pc = "done"
    /\ Len(visited) = 2
    /\ ReadFailed(visited[1])
    /\ ToolFailsFor(visited[1])
    /\ Len(outFile) = 2
    /\ outFile[2].entry = visited[2]

\* C8 as claimed: when both runs on the archive completed, the second left
\* the same document as the first.
C8_SameDocument == BothRunsDone => outFile = previous

\* Position of a visited entry in the walk.
WalkPos(e) == CHOOSE k \in 1..Len(visited) : visited[k] = e

\* C8 amended: when both runs completed, the two documents have the same
\* header, the same number of blocks and the same sections; the sections of
\* a document stand in the order of that run's walk.
C8_SameSections ==
    /\ BothRunsDone =>
         /\ Len(outFile) = Len(previous)
         /\ outFile[1] = Header /\ previous[1] = Header
         /\ Range(outFile) = Range(previous)
    /\ pc \in {"walk", "done"} =>
         /\ \A i \in 2..Len(outFile) : outFile[i].entry \in Range(visited)
         /\ \A i, j \in 2..Len(outFile) :
              i < j => WalkPos(outFile[i].entry) < WalkPos(outFile[j].entry)

C8_Witness ==
    /\ BothRunsDone
    /\ Len(outFile) = 3
    /\ outFile # previous

\* C9: in every state each entry has at most one block in the document (so
\* never a converted and a plain section), and the walk has yielded no entry
\* twice.
C9_AtMostOneSection ==
    /\ \A e \in Catalogue : Cardinality(BlocksOf(e)) <= 1
    /\ \A i, j \in DOMAIN visited : visited[i] = visited[j] => i = j

C9_Witness ==
    /\ pc = "done"
    /\ \E e \in Range(visited) : Cardinality(ConvertedSections(e)) = 1
    /\ \E e \in Range(visited) :
         ToolFailsFor(e) /\ Cardinality(PlainSections(e)) = 1

\* C10: the file at the output path changes only in a run whose archive was
\* found and fully extracted, first by being truncated to the header and
\* then by gaining sections; with a missing or corrupt archive it is left
\* as it was.
C10_OutputOpenedAfterExtract ==
    [][/\ archive.status # "valid" => outFile' = outFile
       /\ outFile' # outFile
            => /\ pc \in {"open", "walk"}
               /\ tempDir = "present"
               /\ extracted = archive.entries
       /\ (pc = "open" /\ pc' = "walk") => outFile' = <<Header>>
       /\ pc' \in {"walk", "done"}
            => /\ outFile'[1] = Header
               /\ \A i \in 2..Len(outFile') : outFile'[i].kind = "section"
      ]_vars

C10_Witness ==
    /\ pc = "returned"
    /\ archive.status = "corrupt"
    /\ outFile = StaleDoc

====
